---- MODULE Spec2Model ----
(***************************************************************************)
(* Model of the finance tracker's transaction state container              *)
(* (TransactionProvider) and of its period cursor.                         *)
(*                                                                         *)
(* The repository holds two TransactionProvider sources: the one under     *)
(* components/ (listener cleanup, error callback, day cursor) and the one  *)
(* under context/ (no cleanup, no error callback, month cursor only).      *)
(* `variant` says which of the two is mounted.                             *)
(*                                                                         *)
(* Events are the tasks of the UI event loop: an auth state change with    *)
(* the re-render and effect run it causes, a snapshot or error callback of *)
(* a listener, a call of addTransaction / deleteTransaction, the           *)
(* settlement of a remote call, a navigation call.  The promise reaction   *)
(* queued by the effect cleanup (cleanup.then) is a microtask: it runs     *)
(* before the next task.                                                   *)
(***************************************************************************)
EXTENDS Integers, Sequences, FiniteSets, TLC

\* ---------------------------------------------------------------- bounds
MaxSubs == 2        \* listeners registered and not yet closed (sign-ins are
                    \* refused beyond it)
MaxOps == 2         \* calls of addTransaction / deleteTransaction in a session
MaxDate == 2        \* transaction dates are 1..MaxDate (abstract instants)
MaxDelta == 2       \* navigation deltas are -MaxDelta..MaxDelta
YearMin == 2023     \* the cursor's year stays in YearMin..YearMax
YearMax == 2025

Users == {"A", "B"}
NoUser == "null"
Variants == {"components", "context"}
\* the dates of the transactions added in a session: 00:00 UTC of MaxDate
\* successive days, each an instant (UTC day number, milliseconds into the day)
Dates == {[day |-> d, ms |-> 0] : d \in 1..MaxDate}
DocIds == 1..MaxOps
Deltas == (0 - MaxDelta)..MaxDelta

VARIABLES
    variant,        \* which TransactionProvider source is mounted
    currentUser,    \* useAuth().currentUser as rendered by the provider
    transactions,   \* useState([]): the exposed list, a sequence of documents
    loading,        \* useState(false)
    subs,           \* the onSnapshot listeners that are registered and not closed
    resolved,       \* the listener of the latest effect run has applied a snapshot
    setupFailed,    \* the latest effect run caught an error setting the listener up
    microtasks,     \* queued cleanup.then reactions
    unhandled,      \* an unhandled promise rejection was raised
    remote,         \* the document store: per identity, a set of documents
    nextId,         \* next document id the store assigns
    ops,            \* the calls of addTransaction / deleteTransaction in flight
    calls,          \* how many calls were made so far
    lastResult,     \* the latest completed call and what it returned
    currentYear,    \* useState(new Date().getFullYear())
    currentMonth,   \* useState(new Date().getMonth()), 0..11
    currentDay,     \* useState(new Date().getDate())
    lastCall,       \* the last navigation call and the cursor it was applied to
    tzOffset,       \* the client's UTC offset (local time - UTC), in milliseconds
    filteredTransactions,   \* TransactionsSection: the list as last rendered
    overview,       \* OverviewSection: the totals as last rendered
    form,           \* AddTransactionModal: isOpen and the form's useState values
    submitted,      \* the latest handleSubmit: what it passed on and showed
    updateQueue,    \* navigation calls made since the provider last rendered
    authLoading,    \* AuthProvider: useState(true)
    authCalls,      \* AuthProvider: the calls of the identity provider in flight
    confirmModal,   \* AppContainer: showConfirmModal and confirmAction
    messageModal,   \* AppContainer: showMessageModal and message
    showCategoryManagement  \* AddTransactionModal: useState(false)

storeVars == <<variant, currentUser, transactions, loading, subs, resolved,
               setupFailed, microtasks, unhandled, remote, nextId, ops, calls,
               lastResult>>
cursorVars == <<currentYear, currentMonth, currentDay, lastCall, updateQueue>>
viewVars == <<tzOffset, filteredTransactions, overview>>
formVars == <<form, submitted>>
uiVars == <<authLoading, authCalls, confirmModal, messageModal,
            showCategoryManagement>>
vars == <<variant, currentUser, transactions, loading, subs, resolved,
          setupFailed, microtasks, unhandled, remote, nextId, ops, calls,
          lastResult, currentYear, currentMonth, currentDay, lastCall,
          tzOffset, filteredTransactions, overview, form, submitted,
          updateQueue, authLoading, authCalls, confirmModal, messageModal,
          showCategoryManagement>>

\* ------------------------------------------------------- pure functions

\* querySnapshot.forEach: the documents of a collection in document-id order
RECURSIVE SnapshotDocs(_)
SnapshotDocs(S) ==
    IF S = {} THEN <<>>
    ELSE LET d == CHOOSE x \in S : \A y \in S : x.id <= y.id
         IN  <<d>> \o SnapshotDocs(S \ {d})

\* a <= b on Date objects (comparison of time values)
NotAfter(a, b) == a.day < b.day \/ (a.day = b.day /\ a.ms <= b.ms)

\* the comparator turned round (a.date - b.date): oldest first
RECURSIVE InsertByDateAsc(_, _)
InsertByDateAsc(x, s) ==
    IF s = <<>> THEN <<x>>
    ELSE IF NotAfter(Head(s).date, x.date)
         THEN <<Head(s)>> \o InsertByDateAsc(x, Tail(s))
         ELSE <<x>> \o s

\* one step of the stable sort: x goes behind every element that is not older
RECURSIVE InsertByDateDesc(_, _)
InsertByDateDesc(x, s) ==
    IF s = <<>> THEN <<x>>
    ELSE IF NotAfter(x.date, Head(s).date)
         THEN <<Head(s)>> \o InsertByDateDesc(x, Tail(s))
         ELSE <<x>> \o s

\* transactionsData.sort((a, b) => b.date - a.date): stable, most recent first
RECURSIVE SortByDateDesc(_)
SortByDateDesc(s) ==
    IF s = <<>> THEN <<>>
    ELSE InsertByDateDesc(s[Len(s)], SortByDateDesc(SubSeq(s, 1, Len(s) - 1)))

\* s without its i-th element
RECURSIVE Without(_, _)
Without(s, i) ==
    IF s = <<>> THEN <<>>
    ELSE IF i = 1 THEN Tail(s)
         ELSE <<Head(s)>> \o Without(Tail(s), i - 1)

\* ----------------------------------------------------------------- Init

\* no navigation call yet.  A call is recorded with its delta and the cursor
\* it was applied to (year, month, day), and with the kind of the call made
\* before it.
NoCall == [op |-> "none", delta |-> 0, year |-> 0, month |-> 0, day |-> 0,
           prevOp |-> "none"]

\* the record of a call of op(delta) on the rendered cursor
Recorded(op, delta) ==
    [op |-> op, delta |-> delta,
     year |-> currentYear, month |-> currentMonth, day |-> currentDay,
     prevOp |-> lastCall.op]
NoResult == [kind |-> "none", uid |-> NoUser, called |-> FALSE,
             outcome |-> "none", ret |-> "none", raced |-> FALSE]

\* OverviewSection rendered on an empty list
NoOverview == [filtered |-> <<>>, totalIncome |-> 0, totalExpenses |-> 0,
               balance |-> 0, colour |-> "blue", magnitude |-> 0]

\* AddTransactionModal as constructed: closed, type income, the fields empty
\* (a date string is the tuple of its year, month 1..12 and day; the empty
\* string is the empty tuple)
ClosedForm == [isOpen |-> FALSE, type |-> "income", amount |-> "",
               category |-> "", date |-> <<>>]

\* no transaction object
NoTransaction == [type |-> "none", amount |-> 0, category |-> "", date |-> <<>>]

\* no handleSubmit yet.  A handleSubmit is recorded with whether it called
\* addTransaction, the transaction object it passed, the message it showed
\* last and whether it still awaits addTransaction.
NoSubmit == [called |-> FALSE, transaction |-> NoTransaction, message |-> "none",
             awaiting |-> FALSE]

\* ConfirmModal closed, confirmAction null (a confirmAction is given by the
\* id of the document its closure deletes)
NoConfirm == [isOpen |-> FALSE, action |-> 0]

\* MessageModal closed, message { text: '', isError: false }
NoMessage == [isOpen |-> FALSE, text |-> "", isError |-> FALSE]

\* the auth observer has reported the session and no call of the identity
\* provider is in flight; the modals of AppContainer are closed
InitApp ==
    /\ authLoading = FALSE
    /\ authCalls = <<>>
    /\ confirmModal = NoConfirm
    /\ messageModal = NoMessage
    /\ showCategoryManagement = FALSE

\* the components as first rendered, in a client on UTC
InitUi ==
    /\ tzOffset = 0
    /\ filteredTransactions = <<>>
    /\ overview = NoOverview
    /\ form = ClosedForm
    /\ submitted = NoSubmit
    /\ InitApp

InitStore ==
    /\ currentUser = NoUser
    /\ transactions = <<>>
    /\ loading = FALSE
    /\ subs = <<>>
    /\ resolved = FALSE
    /\ setupFailed = FALSE
    /\ microtasks = <<>>
    /\ unhandled = FALSE
    /\ remote = [u \in Users |-> {}]
    /\ nextId = 1
    /\ ops = <<>>
    /\ calls = 0
    /\ lastResult = NoResult

\* the provider after construction; the cursor plays no part in the store's
\* behaviour and starts at one fixed date here (InitCursor draws it freely)
Init ==
    /\ variant \in Variants
    /\ InitStore
    /\ currentYear = 2025
    /\ currentMonth = 0
    /\ currentDay = 31
    /\ lastCall = NoCall
    /\ updateQueue = <<>>
    /\ InitUi

\* ------------------------------------------------ subscription effect

\* the listener of the previous effect run is no longer the current one;
\* with toClose its unsubscribe has been queued
Retire(s, toClose) ==
    [i \in 1..Len(s) |->
        IF s[i].role = "current"
        THEN [s[i] EXCEPT !.role = IF toClose THEN "closing" ELSE "stale"]
        ELSE s[i]]

\* the previous effect run returned a cleanup: only components/ returns one,
\* and only from a run with a user
HasCleanup == variant = "components" /\ currentUser # NoUser

\* the cleanup: cleanup.then(unsub => unsub()) queues a reaction on the settled
\* promise of loadTransactions, which holds unsubscribe, or undefined when the
\* set-up was caught
CleanupQueued ==
    IF HasCleanup
    THEN Append(microtasks, IF setupFailed THEN "undefined" ELSE "unsubscribe")
    ELSE microtasks

\* onAuthStateChanged(user) -> setCurrentUser(user) -> re-render -> the effect
\* on [currentUser]: cleanup of the previous run, then loadTransactions().
AuthStateChangedStore(u, setupOk) ==
    /\ microtasks = <<>>
    /\ u # currentUser
    /\ u # NoUser => Len(subs) < MaxSubs
    /\ currentUser' = u
    /\ microtasks' = CleanupQueued
    /\ resolved' = FALSE
    /\ IF u = NoUser
       THEN /\ subs' = Retire(subs, HasCleanup)
            /\ setupFailed' = FALSE
            /\ UNCHANGED loading
       ELSE IF setupOk
            THEN /\ subs' = Append(Retire(subs, HasCleanup),
                                   [uid |-> u, role |-> "current"])
                 /\ setupFailed' = FALSE
                 /\ loading' = TRUE
            ELSE /\ subs' = Retire(subs, HasCleanup)
                 /\ setupFailed' = TRUE
                 /\ loading' = FALSE
    /\ UNCHANGED <<variant, transactions, unhandled, remote, nextId, ops, calls,
                   lastResult>>

\* an identity change reported by an auth provider that is not modelled
\* further
AuthStateChanged(u, setupOk) ==
    /\ AuthStateChangedStore(u, setupOk)
    /\ UNCHANGED <<cursorVars, viewVars, formVars, uiVars>>

\* the reaction queued by the cleanup: unsub => unsub()
RunMicrotask ==
    /\ microtasks # <<>>
    /\ microtasks' = Tail(microtasks)
    /\ IF Head(microtasks) = "unsubscribe"
       THEN /\ subs' = SelectSeq(subs, LAMBDA l : l.role # "closing")
            /\ UNCHANGED unhandled
       ELSE /\ unhandled' = TRUE
            /\ UNCHANGED subs
    /\ UNCHANGED <<variant, currentUser, transactions, loading, resolved,
                   setupFailed, remote, nextId, ops, calls, lastResult>>
    /\ UNCHANGED <<cursorVars, viewVars, formVars, uiVars>>

\* onSnapshot success callback.  A registered listener may deliver at any
\* time: its first snapshot, or a later one after the collection changed.
SnapshotCallback(l) ==
    /\ microtasks = <<>>
    /\ l \in 1..Len(subs)
    /\ transactions' = SortByDateDesc(SnapshotDocs(remote[subs[l].uid]))
    /\ loading' = FALSE
    /\ resolved' = (resolved \/ subs[l].role = "current")
    /\ UNCHANGED <<variant, currentUser, subs, setupFailed, microtasks, unhandled,
                   remote, nextId, ops, calls, lastResult>>
    /\ UNCHANGED <<cursorVars, viewVars, formVars, uiVars>>

\* what a listener error does to the loading flag: components/ passes an
\* error callback that clears it, context/ passes none
LoadingAfterError == IF variant = "components" THEN FALSE ELSE loading

\* the listener fails and is closed by the store
SnapshotError(l) ==
    /\ microtasks = <<>>
    /\ l \in 1..Len(subs)
    /\ subs' = Without(subs, l)
    /\ loading' = LoadingAfterError
    /\ UNCHANGED <<variant, currentUser, transactions, resolved, setupFailed,
                   microtasks, unhandled, remote, nextId, ops, calls, lastResult>>
    /\ UNCHANGED <<cursorVars, viewVars, formVars, uiVars>>

\* ------------------------------------------------ add / delete

\* what a call without a resolved identity returns:
\* components/ `return false`, context/ a bare `return`
NoUserResult == IF variant = "components" THEN "false" ELSE "undefined"

\* a result taken from an error flag shared by all calls instead of the
\* call's own try / catch
ResolvedResultShared == IF lastResult.outcome = "fail" THEN "false" ELSE "true"

\* the value the try block returns once the awaited remote call has resolved
ResolvedResult == "true"

\* a catch block that reports success
CaughtResultTrue == "true"

\* the value the catch block returns
CaughtResult == "false"

\* an optimistic update: the call itself edits the list
ListAfterWriteOptimistic(list, kind, arg) ==
    IF kind = "delete"
    THEN SelectSeq(list, LAMBDA d : d.id # arg)
    ELSE Append(list, [id |-> nextId, date |-> arg, uid |-> currentUser])

\* the list as addTransaction / deleteTransaction leave it: neither calls
\* setTransactions
ListAfterWrite(list, kind, arg) == list

\* the common frame of addTransaction and deleteTransaction up to the await:
\* what it does to the provider.
\* argOk: evaluating the arguments of the remote call (transaction.date and
\* its conversion to a Timestamp) does not throw.
CallStore(kind, arg, argOk) ==
    /\ microtasks = <<>>
    /\ calls < MaxOps
    /\ calls' = calls + 1
    /\ IF currentUser = NoUser
       THEN /\ lastResult' = [kind |-> kind, uid |-> NoUser, called |-> FALSE,
                              outcome |-> "none", ret |-> NoUserResult,
                              raced |-> FALSE]
            /\ UNCHANGED <<ops, loading>>
       ELSE IF argOk
            THEN /\ ops' = Append(ops, [kind |-> kind, uid |-> currentUser,
                                        arg |-> arg, raced |-> FALSE])
                 /\ loading' = TRUE
                 /\ UNCHANGED lastResult
            ELSE /\ lastResult' = [kind |-> kind, uid |-> currentUser,
                                   called |-> FALSE, outcome |-> "none",
                                   ret |-> CaughtResult, raced |-> FALSE]
                 /\ loading' = FALSE
                 /\ UNCHANGED ops
    /\ transactions' = ListAfterWrite(transactions, kind, arg)
    /\ UNCHANGED <<variant, currentUser, subs, resolved, setupFailed, microtasks,
                   unhandled, remote, nextId>>

\* a call made by a caller that is not modelled further
Call(kind, arg, argOk) ==
    /\ CallStore(kind, arg, argOk)
    /\ UNCHANGED <<cursorVars, viewVars, formVars, uiVars>>

addTransaction(date, argOk) == Call("add", date, argOk)

\* the argument is a document id: nothing is evaluated that could throw
deleteTransaction(id) == Call("delete", id, TRUE)

\* the store's effect of a successful insert / delete on collection u
RemoteAfter(op) ==
    IF op.kind = "add"
    THEN [remote EXCEPT ![op.uid] = @ \cup {[id |-> nextId, date |-> op.arg, uid |-> op.uid]}]
    ELSE [remote EXCEPT ![op.uid] = {d \in @ : d.id # op.arg}]

\* the calls still in flight after call o has settled; a failure of o is
\* recorded on them
StillInFlight(o, ok) ==
    LET rest == Without(ops, o)
    IN  [i \in 1..Len(rest) |-> [rest[i] EXCEPT !.raced = @ \/ ~ok]]

\* the awaited addDoc / deleteDoc settles: return true, or catch and return
\* false; finally setLoading(false)
SettleStore(o, ok) ==
    /\ microtasks = <<>>
    /\ o \in 1..Len(ops)
    /\ lastResult' = [kind |-> ops[o].kind, uid |-> ops[o].uid, called |-> TRUE,
                      outcome |-> IF ok THEN "ok" ELSE "fail",
                      ret |-> IF ok THEN ResolvedResult ELSE CaughtResult,
                      raced |-> ops[o].raced]
    /\ ops' = StillInFlight(o, ok)
    /\ loading' = FALSE
    /\ IF ok
       THEN /\ remote' = RemoteAfter(ops[o])
            /\ nextId' = IF ops[o].kind = "add" THEN nextId + 1 ELSE nextId
       ELSE UNCHANGED <<remote, nextId>>
    /\ transactions' = ListAfterWrite(transactions, ops[o].kind, ops[o].arg)
    /\ UNCHANGED <<variant, currentUser, subs, resolved, setupFailed, microtasks,
                   unhandled, calls>>

\* the settling of a call whose caller is not modelled further
Settle(o, ok) ==
    /\ SettleStore(o, ok)
    /\ UNCHANGED <<cursorVars, viewVars, formVars, uiVars>>

\* ------------------------------------------------ period cursor

\* the wrap below January left out
changeMonthResultNoWrap(year, month, delta) ==
    LET newMonth == month + delta
    IN  IF newMonth > 11 THEN [year |-> year + 1, month |-> 0, day |-> 1]
        ELSE [year |-> year, month |-> newMonth, day |-> 1]

\* changeMonth(delta): the updater of setCurrentMonth computes the new month
\* from the latest month and the year from the rendered currentYear, then
\* sets the year and resets the day
changeMonthResult(year, month, delta) ==
    LET newMonth == month + delta
    IN  IF newMonth < 0 THEN [year |-> year - 1, month |-> 11, day |-> 1]
        ELSE IF newMonth > 11 THEN [year |-> year + 1, month |-> 0, day |-> 1]
        ELSE [year |-> year, month |-> newMonth, day |-> 1]

\* one changeMonth call on the rendered cursor, followed by the re-render
changeMonth(delta) ==
    LET r == changeMonthResult(currentYear, currentMonth, delta) IN
    /\ r.year \in YearMin..YearMax
    /\ currentYear' = r.year
    /\ currentMonth' = r.month
    /\ currentDay' = r.day
    /\ lastCall' = Recorded("changeMonth", delta)
    /\ UNCHANGED <<storeVars, viewVars, formVars, uiVars, updateQueue>>

\* ------------------------------------------------ specifications

\* The store: identity changes, the feed, and calls of add / delete, from an
\* empty document store.
Next ==
    \/ \E u \in Users \cup {NoUser}, ok \in BOOLEAN : AuthStateChanged(u, ok)
    \/ RunMicrotask
    \/ \E l \in 1..MaxSubs : SnapshotCallback(l)
    \/ \E l \in 1..MaxSubs : SnapshotError(l)
    \/ \E d \in Dates, argOk \in BOOLEAN : addTransaction(d, argOk)
    \/ \E id \in DocIds : deleteTransaction(id)
    \/ \E o \in 1..MaxOps, ok \in BOOLEAN : Settle(o, ok)

Spec == Init /\ [][Next]_vars

\* The period cursor: it starts at the date of the day the provider is
\* constructed (new Date()), any real calendar date.
IsLeapYear(y) == (y % 4 = 0 /\ y % 100 # 0) \/ y % 400 = 0

DaysInMonth(y, m) ==
    IF m = 1 THEN (IF IsLeapYear(y) THEN 29 ELSE 28)
    ELSE IF m \in {3, 5, 8, 10} THEN 30 ELSE 31

InitCursor ==
    /\ variant = "components"
    /\ InitStore
    /\ currentYear \in YearMin..YearMax
    /\ currentMonth \in 0..11
    /\ currentDay \in 1..DaysInMonth(currentYear, currentMonth)
    /\ lastCall = NoCall
    /\ updateQueue = <<>>
    /\ InitUi

NextCursor ==
    \E delta \in Deltas : changeMonth(delta)

SpecCursor == InitCursor /\ [][NextCursor]_vars

\* ------------------------------------------------ day navigation

\* Date arithmetic as the Date object does it (ECMAScript day numbers: days
\* since 1 January 1970).  The cursor is built and read back in local time
\* at 00:00, so the arithmetic is on whole local days.

\* a year count that ignores leap days
DayFromYearNoLeap(y) == 365 * (y - 1970)

\* DayFromYear(y): the day number of 1 January of year y
DayFromYear(y) ==
    365 * (y - 1970) + ((y - 1969) \div 4) - ((y - 1901) \div 100)
        + ((y - 1601) \div 400)

\* InLeapYear: 1 in a leap year (DaysInYear(y) = 366), 0 otherwise
InLeapYear(y) == IF IsLeapYear(y) THEN 1 ELSE 0

\* the day within a common year that each month starts on, and the day after
\* the year's last
DaysBeforeMonth == <<0, 31, 59, 90, 120, 151, 181, 212, 243, 273, 304, 334, 365>>

\* the day within year y of the first day of month m (0..11), and of the
\* month after December (m = 12)
MonthStart(y, m) == DaysBeforeMonth[m + 1] + (IF m >= 2 THEN InLeapYear(y) ELSE 0)

\* MakeDay(year, month, date): month may lie outside 0..11, date is any integer
MakeDay(year, month, date) ==
    LET ym == year + (month \div 12)
        mn == month % 12
    IN  DayFromYear(ym) + MonthStart(ym, mn) + date - 1

\* YearFromTime: the year a day number falls in
YearFromTime(day) ==
    CHOOSE y \in (YearMin - 2)..(YearMax + 2) :
        DayFromYear(y) <= day /\ day < DayFromYear(y + 1)

\* getFullYear / getMonth / getDate of a day number: YearFromTime,
\* MonthFromTime and DateFromTime
DateFields(day) ==
    LET y == YearFromTime(day)
        dayWithinYear == day - DayFromYear(y)
        leap == InLeapYear(y)
        m == CHOOSE k \in 0..11 :
                 /\ DaysBeforeMonth[k + 1] + (IF k >= 2 THEN leap ELSE 0) <= dayWithinYear
                 /\ dayWithinYear < DaysBeforeMonth[k + 2] + (IF k >= 1 THEN leap ELSE 0)
    IN  [year |-> y, month |-> m,
         day |-> dayWithinYear - (DaysBeforeMonth[m + 1] + (IF m >= 2 THEN leap ELSE 0)) + 1]

\* a day that stops at the ends of its month instead of rolling over
changeDayResultClamped(year, month, day, delta) ==
    LET d == day + delta
        last == MonthStart(year, month + 1) - MonthStart(year, month)
    IN  [year |-> year, month |-> month,
         day |-> IF d < 1 THEN 1 ELSE IF d > last THEN last ELSE d]

\* day + delta written to the cursor as it is
changeDayResultRaw(year, month, day, delta) ==
    [year |-> year, month |-> month, day |-> day + delta]

\* changeDay(delta): new Date(currentYear, currentMonth, currentDay), then
\* setDate(getDate() + delta), then the three getters
changeDayResult(year, month, day, delta) ==
    LET currentDate == DateFields(MakeDay(year, month, day))
        moved == MakeDay(currentDate.year, currentDate.month,
                         currentDate.day + delta)
    IN  DateFields(moved)

\* a changeDay that also marks the provider as loading
changeDayReloading(delta) ==
    \E r \in {changeDayResult(currentYear, currentMonth, currentDay, delta)} :
    /\ r.year \in YearMin..YearMax
    /\ currentYear' = r.year
    /\ currentMonth' = r.month
    /\ currentDay' = r.day
    /\ lastCall' = Recorded("changeDay", delta)
    /\ loading' = TRUE
    /\ UNCHANGED <<variant, currentUser, transactions, subs, resolved,
                   setupFailed, microtasks, unhandled, remote, nextId, ops,
                   calls, lastResult>>
    /\ UNCHANGED <<viewVars, formVars, uiVars, updateQueue>>

\* one changeDay call on the rendered cursor, followed by the re-render
changeDay(delta) ==
    \E r \in {changeDayResult(currentYear, currentMonth, currentDay, delta)} :
    /\ r.year \in YearMin..YearMax
    /\ currentYear' = r.year
    /\ currentMonth' = r.month
    /\ currentDay' = r.day
    /\ lastCall' = Recorded("changeDay", delta)
    /\ UNCHANGED <<storeVars, viewVars, formVars, uiVars, updateQueue>>

\* A provider in use: A is signed in, A's listener has delivered the one
\* document of A's collection, and an addTransaction call is in flight.
StoreInUse ==
    LET doc == [id |-> 1, date |-> [day |-> 1, ms |-> 0], uid |-> "A"] IN
    /\ currentUser = "A"
    /\ transactions = <<doc>>
    /\ loading = TRUE
    /\ subs = <<[uid |-> "A", role |-> "current"]>>
    /\ resolved = TRUE
    /\ setupFailed = FALSE
    /\ microtasks = <<>>
    /\ unhandled = FALSE
    /\ remote = [u \in Users |-> IF u = "A" THEN {doc} ELSE {}]
    /\ nextId = 2
    /\ ops = <<[kind |-> "add", uid |-> "A", arg |-> [day |-> 1, ms |-> 0],
                raced |-> FALSE]>>
    /\ calls = 2
    /\ lastResult = [kind |-> "add", uid |-> "A", called |-> TRUE,
                     outcome |-> "ok", ret |-> "true", raced |-> FALSE]

\* Navigation by day and by month on the provider of components/, from any
\* real calendar date, with the store fresh or in use.
InitNav ==
    /\ variant = "components"
    /\ InitStore \/ StoreInUse
    /\ currentYear \in YearMin..YearMax
    /\ currentMonth \in 0..11
    /\ currentDay \in 1..DaysInMonth(currentYear, currentMonth)
    /\ lastCall = NoCall
    /\ updateQueue = <<>>
    /\ InitUi

NextNav ==
    \/ \E delta \in Deltas : changeMonth(delta)
    \/ \E delta \in Deltas : changeDay(delta)

SpecNav == InitNav /\ [][NextNav]_vars

\* ------------------------------------------------ batched navigation

\* how many navigation calls one event handler makes before the provider
\* renders again
MaxBatch == 2

\* the deltas the navigation buttons pass
Steps == {-1, 1}

\* One queued call.  changeDay computes its three values from the rendered
\* cursor when it is called and queues them.  changeMonth queues an updater on
\* the month; React runs the updater at once when the component has no other
\* update pending (eager), and otherwise during the next render.
QueuedCall(op, delta, eager) == [op |-> op, delta |-> delta, eager |-> eager]

\* the state of the three hooks while the queue is processed, with the year
\* the updaters run during the render have set last (late)
Hooks(year, month, day) ==
    [year |-> year, month |-> month, day |-> day, late |-> FALSE, lateYear |-> year]

\* one queued call applied to the hooks.  Either function reads currentYear,
\* currentMonth and currentDay from the closure of the render it was called
\* in; only changeMonth's updater receives the latest month (prev).
ApplyQueued(st, e) ==
    IF e.op = "changeDay"
    THEN LET r == changeDayResult(currentYear, currentMonth, currentDay, e.delta)
         IN  [st EXCEPT !.year = r.year, !.month = r.month, !.day = r.day]
    ELSE LET r == changeMonthResult(currentYear, st.month, e.delta)
         IN  IF e.eager
             THEN [st EXCEPT !.year = r.year, !.month = r.month, !.day = r.day]
             ELSE [st EXCEPT !.month = r.month, !.late = TRUE, !.lateYear = r.year]

RECURSIVE ProcessQueue(_, _)
ProcessQueue(q, st) ==
    IF q = <<>> THEN st ELSE ProcessQueue(Tail(q), ApplyQueued(st, Head(q)))

\* the cursor of the next render: setCurrentYear / setCurrentDay calls made by
\* an updater during the render come after every call made in the handler
RenderedCursor ==
    LET st == ProcessQueue(updateQueue, Hooks(currentYear, currentMonth, currentDay))
    IN  [year |-> IF st.late THEN st.lateYear ELSE st.year,
         month |-> st.month,
         day |-> IF st.late THEN 1 ELSE st.day]

\* changeMonth(delta) called in a handler that has not returned yet
changeMonthQueued(delta, eager) ==
    /\ Len(updateQueue) < MaxBatch
    /\ eager => updateQueue = <<>>
    /\ updateQueue' = Append(updateQueue, QueuedCall("changeMonth", delta, eager))
    /\ UNCHANGED <<currentYear, currentMonth, currentDay, lastCall>>
    /\ UNCHANGED <<storeVars, viewVars, formVars, uiVars>>

\* changeDay(delta) called in a handler that has not returned yet
changeDayQueued(delta) ==
    /\ Len(updateQueue) < MaxBatch
    /\ updateQueue' = Append(updateQueue, QueuedCall("changeDay", delta, TRUE))
    /\ UNCHANGED <<currentYear, currentMonth, currentDay, lastCall>>
    /\ UNCHANGED <<storeVars, viewVars, formVars, uiVars>>

\* the handler has returned: the provider renders with the queued updates
RenderProvider ==
    \E r \in {RenderedCursor} :
    /\ updateQueue # <<>>
    /\ r.year \in YearMin..YearMax
    /\ currentYear' = r.year
    /\ currentMonth' = r.month
    /\ currentDay' = r.day
    /\ updateQueue' = <<>>
    /\ UNCHANGED lastCall
    /\ UNCHANGED <<storeVars, viewVars, formVars, uiVars>>

\* Handlers that make up to MaxBatch navigation calls on the provider of
\* components/ before it renders again, from any real calendar date.
InitBatch ==
    /\ variant = "components"
    /\ InitStore
    /\ currentYear \in YearMin..YearMax
    /\ currentMonth \in 0..11
    /\ currentDay \in 1..DaysInMonth(currentYear, currentMonth)
    /\ lastCall = NoCall
    /\ updateQueue = <<>>
    /\ InitUi

NextBatch ==
    \/ \E delta \in Steps, eager \in BOOLEAN : changeMonthQueued(delta, eager)
    \/ \E delta \in Steps : changeDayQueued(delta)
    \/ RenderProvider

SpecBatch == InitBatch /\ [][NextBatch]_vars

\* ------------------------------------------------ derived view

\* A transaction's date is an instant with millisecond precision, written as
\* the UTC day number and the milliseconds into that day.  The client's UTC
\* offset is constant (no daylight-saving change).
DayMs == 24 * 60 * 60 * 1000
HourMs == 60 * 60 * 1000

\* the instant ms milliseconds after 00:00 UTC of a day, ms any integer
Instant(day, ms) == [day |-> day + (ms \div DayMs), ms |-> ms % DayMs]

\* new Date(year, month, date, h, min, s, ms): a local wall-clock time, given
\* here by its date fields and the milliseconds since local 00:00
LocalTime(year, month, date, ms) == Instant(MakeDay(year, month, date), ms - tzOffset)

\* dayStart / dayEnd of OverviewSection and TransactionsSection of components/
dayStart == LocalTime(currentYear, currentMonth, currentDay, 0)
dayEnd == LocalTime(currentYear, currentMonth, currentDay,
                    23 * HourMs + 59 * 60 * 1000 + 59 * 1000 + 999)

\* monthStart / monthEnd of OverviewSection and TransactionsSection of
\* context/: new Date(y, m, 1) and new Date(y, m + 1, 0, 23, 59, 59)
monthStart == LocalTime(currentYear, currentMonth, 1, 0)
monthEnd == LocalTime(currentYear, currentMonth + 1, 0,
                      23 * HourMs + 59 * 60 * 1000 + 59 * 1000)

\* the filter callback: t.date.toDate() within the bounds, both inclusive
InWindow(t) ==
    IF variant = "components"
    THEN NotAfter(dayStart, t.date) /\ NotAfter(t.date, dayEnd)
    ELSE NotAfter(monthStart, t.date) /\ NotAfter(t.date, monthEnd)

\* transactions.filter(...)
Filter(list) == SelectSeq(list, InWindow)

\* the forEach loop over the filtered list: income adds to totalIncome,
\* anything else to totalExpenses
RECURSIVE Totals(_)
Totals(list) ==
    IF list = <<>> THEN [totalIncome |-> 0, totalExpenses |-> 0]
    ELSE LET t == Head(list)
             rest == Totals(Tail(list))
         IN  IF t.type = "income"
             THEN [rest EXCEPT !.totalIncome = @ + t.amount]
             ELSE [rest EXCEPT !.totalExpenses = @ + t.amount]

\* Math.abs
Abs(x) == IF x < 0 THEN 0 - x ELSE x

\* blue only for a balance above zero
BalanceColourStrict(balance) == IF balance > 0 THEN "blue" ELSE "red"

\* balance >= 0 ? 'text-blue-600' : 'text-red-600'
BalanceColour(balance) == IF balance >= 0 THEN "blue" ELSE "red"

\* what OverviewSection computes in a render
Overview(list) ==
    LET filtered == Filter(list)
        totals == Totals(filtered)
        balance == totals.totalIncome - totals.totalExpenses
    IN  [filtered |-> filtered,
         totalIncome |-> totals.totalIncome,
         totalExpenses |-> totals.totalExpenses,
         balance |-> balance,
         colour |-> BalanceColour(balance),
         magnitude |-> Abs(balance)]

\* a render of OverviewSection on the provider's list and cursor
RenderOverviewSection ==
    /\ overview' = Overview(transactions)
    /\ UNCHANGED <<storeVars, cursorVars, tzOffset, filteredTransactions, formVars,
                   uiVars>>

\* a render of TransactionsSection on the provider's list and cursor
RenderTransactionsSection ==
    /\ filteredTransactions' = Filter(transactions)
    /\ UNCHANGED <<storeVars, cursorVars, tzOffset, overview, formVars, uiVars>>

\* bounds of the view's inputs
MaxListed == 2      \* documents in the list
MaxAmount == 2      \* amounts are 1..MaxAmount (minor units)
MaxOffset == 1      \* UTC offsets are -MaxOffset..MaxOffset hours

Offsets == {h * HourMs : h \in (0 - MaxOffset)..MaxOffset}

\* the cursors the view is rendered at: the last day of a leap February and
\* the last day of a year
ViewCursors == {[year |-> 2024, month |-> 1, day |-> 29],
                [year |-> 2024, month |-> 11, day |-> 31]}

\* the first and the last day of the month of the window the mounted
\* components show: the cursor's day, or the cursor's whole month
WindowFirstDay == IF variant = "components" THEN currentDay ELSE 1
WindowLastDay ==
    IF variant = "components" THEN currentDay
    ELSE DaysInMonth(currentYear, currentMonth)

\* the dates the listed documents carry: the first and the last millisecond
\* of the window, the millisecond before and the one after it, and noon of
\* the cursor's day
DocDates ==
    {LocalTime(currentYear, currentMonth, WindowFirstDay, 0),
     LocalTime(currentYear, currentMonth, WindowFirstDay, 0 - 1),
     LocalTime(currentYear, currentMonth, WindowLastDay, DayMs - 1),
     LocalTime(currentYear, currentMonth, WindowLastDay, DayMs),
     LocalTime(currentYear, currentMonth, currentDay, 12 * HourMs)}

\* the lists a snapshot callback can have set: ordered by date, most recent
\* first, the documents of A's collection
ViewLists ==
    UNION {{s \in [1..n -> [date : DocDates, type : {"income", "expense"},
                            amount : 1..MaxAmount]] :
               \A i \in 1..(n - 1) : NotAfter(s[i + 1].date, s[i].date)} :
           n \in 0..MaxListed}

\* the provider after A's listener has delivered list s
StoreListing(s) ==
    LET docs == [i \in 1..Len(s) |->
                    [id |-> i, uid |-> "A", date |-> s[i].date,
                     type |-> s[i].type, amount |-> s[i].amount]]
    IN  /\ currentUser = "A"
        /\ transactions = docs
        /\ loading = FALSE
        /\ subs = <<[uid |-> "A", role |-> "current"]>>
        /\ resolved = TRUE
        /\ setupFailed = FALSE
        /\ microtasks = <<>>
        /\ unhandled = FALSE
        /\ remote = [u \in Users |->
                        IF u = "A" THEN {docs[i] : i \in 1..Len(docs)} ELSE {}]
        /\ nextId = Len(docs) + 1
        /\ ops = <<>>
        /\ calls = 0
        /\ lastResult = NoResult

\* The derived view: either pair of components (day window of components/,
\* month window of context/), any listed documents, any UTC offset; the
\* sections still show what they rendered before the snapshot arrived.
InitView ==
    /\ variant \in Variants
    /\ tzOffset \in Offsets
    /\ \E c \in ViewCursors :
          /\ currentYear = c.year
          /\ currentMonth = c.month
          /\ currentDay = c.day
    /\ lastCall = NoCall
    /\ updateQueue = <<>>
    /\ \E s \in ViewLists : StoreListing(s)
    /\ filteredTransactions = <<>>
    /\ overview = NoOverview
    /\ form = ClosedForm
    /\ submitted = NoSubmit
    /\ InitApp

NextView ==
    \/ RenderOverviewSection
    \/ RenderTransactionsSection

SpecView == InitView /\ [][NextView]_vars

\* ------------------------------------------------ add-transaction modal

\* the category lists the provider exposes (components/: part_001:373-375,
\* context/: part_008:19-20)
incomeCategories ==
    IF variant = "components"
    THEN {"Salary", "Business", "Freelance", "Gifts", "Adjusted", "Other"}
    ELSE {"Salary", "Business", "Freelance", "Gifts", "Other"}

expenseCategories ==
    IF variant = "components"
    THEN {"Food", "Transport", "Rent", "Utilities", "Entertainment", "Health",
          "Shopping", "Education", "Adjusted", "Other"}
    ELSE {"Food", "Transport", "Rent", "Utilities", "Entertainment", "Health",
          "Shopping", "Education", "Other"}

\* const categories = type === 'income' ? ... : ...
CategoriesOf(type) == IF type = "income" THEN incomeCategories ELSE expenseCategories

\* what the amount field (input type="number") can hold: the empty string
\* or the text of a number
AmountInputs == {"", "0", "-5", "12.50"}

\* parseFloat of the amount field, the value in minor units
ParseFloat(str) ==
    CASE str = "" -> [nan |-> TRUE, value |-> 0]
      [] str = "0" -> [nan |-> FALSE, value |-> 0]
      [] str = "-5" -> [nan |-> FALSE, value |-> 0 - 500]
      [] str = "12.50" -> [nan |-> FALSE, value |-> 1250]

\* what the date field (input type="date") can hold besides the empty string
DateInputs == {<<2024, 2, 29>>}

\* Timestamp.fromDate(new Date(transaction.date)): a date-only string is
\* read as 00:00 UTC of that date
TimestampOf(date) == Instant(MakeDay(date[1], date[2] - 1, date[3]), 0)

\* a validation that lets an amount of 0 through
InvalidZeroPasses(f) ==
    \/ f.amount = ""
    \/ f.category = ""
    \/ f.date = <<>>
    \/ (~ParseFloat(f.amount).nan /\ ParseFloat(f.amount).value < 0)

\* !amount || !category || !date || parseFloat(amount) <= 0
Invalid(f) ==
    \/ f.amount = ""
    \/ f.category = ""
    \/ f.date = <<>>
    \/ (~ParseFloat(f.amount).nan /\ ParseFloat(f.amount).value <= 0)

\* the modal is mounted: AppContainer renders only the LoadingIndicator
\* while the provider is loading
Mounted == form.isOpen /\ ~loading

\* the "Add" button: setShowAddModal(true); the effect on [isOpen] sets the
\* date to today's and clears amount and category
OpenModal ==
    /\ ~form.isOpen
    /\ ~loading
    /\ \E today \in DateInputs :
          form' = [form EXCEPT !.isOpen = TRUE, !.date = today, !.amount = "",
                               !.category = ""]
    /\ showCategoryManagement' = FALSE
    /\ UNCHANGED <<storeVars, cursorVars, viewVars, submitted, authLoading,
                   authCalls, confirmModal, messageModal>>

\* onClose from the Cancel and the close button
CloseModal ==
    /\ Mounted
    /\ form' = [form EXCEPT !.isOpen = FALSE]
    /\ UNCHANGED <<storeVars, cursorVars, viewVars, submitted, uiVars>>

\* the user picks the other type: components/ also clears the category
setType(t) ==
    /\ Mounted
    /\ t # form.type
    /\ form' = [form EXCEPT !.type = t,
                            !.category = IF variant = "components" THEN "" ELSE @]
    /\ UNCHANGED <<storeVars, cursorVars, viewVars, submitted, uiVars>>

setAmount(a) ==
    /\ Mounted
    /\ a # form.amount
    /\ form' = [form EXCEPT !.amount = a]
    /\ UNCHANGED <<storeVars, cursorVars, viewVars, submitted, uiVars>>

\* the user picks an option of the category select: the placeholder or a
\* category of the type that is selected
setCategory(c) ==
    /\ Mounted
    /\ c \in {""} \cup CategoriesOf(form.type)
    /\ c # form.category
    /\ form' = [form EXCEPT !.category = c]
    /\ UNCHANGED <<storeVars, cursorVars, viewVars, submitted, uiVars>>

setDate(d) ==
    /\ Mounted
    /\ d # form.date
    /\ form' = [form EXCEPT !.date = d]
    /\ UNCHANGED <<storeVars, cursorVars, viewVars, submitted, uiVars>>

\* handleSubmit up to its await: the validation, then addTransaction
handleSubmit ==
    /\ Mounted
    /\ IF Invalid(form)
       THEN /\ submitted' = [called |-> FALSE, transaction |-> NoTransaction,
                             message |-> "Please fill all fields with valid values.",
                             awaiting |-> FALSE]
            /\ UNCHANGED storeVars
       ELSE /\ submitted' = [called |-> TRUE,
                             transaction |-> [type |-> form.type,
                                              amount |-> ParseFloat(form.amount).value,
                                              category |-> form.category,
                                              date |-> form.date],
                             message |-> submitted.message,
                             awaiting |-> TRUE]
            /\ CallStore("add", TimestampOf(form.date), TRUE)
    /\ UNCHANGED <<form, cursorVars, viewVars, uiVars>>

\* addTransaction settles and handleSubmit resumes: the message, and onClose
\* after a success.  The provider has stopped loading, so the modal is
\* mounted again, with its initial state and, if still open, today's date.
handleSubmitResumes(ok) ==
    /\ submitted.awaiting
    /\ SettleStore(Len(ops), ok)
    /\ submitted' = [submitted EXCEPT
                        !.awaiting = FALSE,
                        !.message = IF ok THEN "added successfully!" ELSE "Error adding"]
    /\ IF ok
       THEN form' = ClosedForm
       ELSE \E today \in DateInputs :
                form' = [ClosedForm EXCEPT !.isOpen = TRUE, !.date = today]
    /\ UNCHANGED <<cursorVars, viewVars, uiVars>>

\* The modal in AppContainer, which renders it for a signed-in identity.
InitForm ==
    /\ variant \in Variants
    /\ StoreListing(<<>>)
    /\ currentYear = 2024
    /\ currentMonth = 1
    /\ currentDay = 29
    /\ lastCall = NoCall
    /\ updateQueue = <<>>
    /\ InitUi

NextForm ==
    \/ OpenModal
    \/ CloseModal
    \/ \E t \in {"income", "expense"} : setType(t)
    \/ \E a \in AmountInputs : setAmount(a)
    \/ \E c \in incomeCategories \cup expenseCategories \cup {""} : setCategory(c)
    \/ \E d \in DateInputs \cup {<<>>} : setDate(d)
    \/ handleSubmit
    \/ \E ok \in BOOLEAN : handleSubmitResumes(ok)

SpecForm == InitForm /\ [][NextForm]_vars

\* ------------------------------------------------ category management

\* the literal list the category management section checks a label against
HardcodedDefaults ==
    {"Salary", "Business", "Freelance", "Gifts", "Adjusted", "Food", "Transport",
     "Rent", "Utilities", "Entertainment", "Health", "Shopping", "Education"}

\* whether the row of a label gets a delete button
DeleteOffered(cat) == cat \notin HardcodedDefaults

\* the labels with a delete button in the rendered modal: the section lists
\* the categories of the selected type while it is shown
DeleteButtons ==
    IF Mounted /\ showCategoryManagement
    THEN {cat \in CategoriesOf(form.type) : DeleteOffered(cat)}
    ELSE {}

\* the "Manage Categories" / "Hide Category Management" button
toggleCategoryManagement ==
    /\ Mounted
    /\ showCategoryManagement' = ~showCategoryManagement
    /\ UNCHANGED <<storeVars, cursorVars, viewVars, formVars, authLoading,
                   authCalls, confirmModal, messageModal>>

\* the modal of components/, which has the category management section
InitCategories ==
    /\ InitForm
    /\ variant = "components"

NextCategories ==
    \/ OpenModal
    \/ CloseModal
    \/ \E t \in {"income", "expense"} : setType(t)
    \/ \E a \in AmountInputs : setAmount(a)
    \/ \E c \in incomeCategories \cup expenseCategories \cup {""} : setCategory(c)
    \/ toggleCategoryManagement

SpecCategories == InitCategories /\ [][NextCategories]_vars

\* ------------------------------------------------ date round trip

\* the date strings ("YYYY-MM-DD", month 1..12) a transaction is added with:
\* the last day of a leap February and the last day of a year
RoundTripDates == {<<2024, 2, 29>>, <<2024, 12, 31>>}

\* the cursor at the date a date string names (the cursor's month is 0..11)
CursorAt(date) == [year |-> date[1], month |-> date[2] - 1, day |-> date[3]]

\* the cursors TransactionsSection is rendered at: each date and the days
\* before and after it
RoundTripCursors ==
    {DateFields(MakeDay(d[1], d[2] - 1, d[3]) + k) :
        d \in RoundTripDates, k \in {-1, 0, 1}}

\* components/ mounted for A with a registered listener and an empty
\* collection, at any of the UTC offsets, the cursor at any of the dates
InitRoundTrip ==
    /\ variant = "components"
    /\ tzOffset \in Offsets
    /\ \E c \in RoundTripCursors :
          /\ currentYear = c.year
          /\ currentMonth = c.month
          /\ currentDay = c.day
    /\ lastCall = NoCall
    /\ updateQueue = <<>>
    /\ StoreListing(<<>>)
    /\ filteredTransactions = <<>>
    /\ overview = NoOverview
    /\ form = ClosedForm
    /\ submitted = NoSubmit
    /\ InitApp

\* add with a date string, the store's answer, the feed's delivery, a render
NextRoundTrip ==
    \/ \E d \in RoundTripDates : addTransaction(TimestampOf(d), TRUE)
    \/ \E o \in 1..MaxOps, ok \in BOOLEAN : Settle(o, ok)
    \/ SnapshotCallback(1)
    \/ RenderTransactionsSection

SpecRoundTrip == InitRoundTrip /\ [][NextRoundTrip]_vars

\* ------------------------------------------------ confirmed delete

\* AppContainer renders its content (the sections and the three modals) for
\* a signed-in user while the transaction loading flag is false
ContentRendered == currentUser # NoUser /\ ~loading

\* the documents TransactionsSection shows a delete button for
ShownIds == {Filter(transactions)[i].id : i \in 1..Len(Filter(transactions))}

\* a message that reports success whatever deleteTransaction returned
DeleteMessageSuccess(ret) ==
    [isOpen |-> TRUE, text |-> "Transaction deleted successfully.", isError |-> FALSE]

\* the showMessage call of the confirmed action: `if (success)` on the value
\* deleteTransaction returned
DeleteMessage(ret) ==
    IF ret = "true"
    THEN [isOpen |-> TRUE, text |-> "Transaction deleted successfully.",
          isError |-> FALSE]
    ELSE [isOpen |-> TRUE, text |-> "Failed to delete transaction.",
          isError |-> TRUE]

\* handleDelete(id): showConfirm(message, action) stores the action and opens
\* the ConfirmModal; nothing is deleted yet
handleDelete(id) ==
    /\ ContentRendered
    /\ id \in ShownIds
    /\ confirmModal' = [isOpen |-> TRUE, action |-> id]
    /\ UNCHANGED <<storeVars, cursorVars, viewVars, formVars, authLoading,
                   authCalls, messageModal, showCategoryManagement>>

\* the "No" button: onCancel closes the ConfirmModal
onCancel ==
    /\ ContentRendered
    /\ confirmModal.isOpen
    /\ confirmModal' = [confirmModal EXCEPT !.isOpen = FALSE]
    /\ UNCHANGED <<storeVars, cursorVars, viewVars, formVars, authLoading,
                   authCalls, messageModal, showCategoryManagement>>

\* the "Yes, Delete" button: onConfirm is the stored action, which calls
\* deleteTransaction(id) and awaits it.  Nothing calls setShowConfirmModal.
onConfirm ==
    /\ ContentRendered
    /\ confirmModal.isOpen
    /\ CallStore("delete", confirmModal.action, TRUE)
    /\ UNCHANGED <<cursorVars, viewVars, formVars, uiVars>>

\* the confirmed action after its await: showMessage on the returned value
confirmActionResumes(o, ok) ==
    /\ SettleStore(o, ok)
    /\ messageModal' = DeleteMessage(IF ok THEN ResolvedResult ELSE CaughtResult)
    /\ UNCHANGED <<cursorVars, viewVars, formVars, authLoading, authCalls,
                   confirmModal, showCategoryManagement>>

\* MessageModal's onClose
closeMessage ==
    /\ ContentRendered
    /\ messageModal.isOpen
    /\ messageModal' = [messageModal EXCEPT !.isOpen = FALSE]
    /\ UNCHANGED <<storeVars, cursorVars, viewVars, formVars, authLoading,
                   authCalls, confirmModal, showCategoryManagement>>

\* the documents of A's collection, all dated within the cursor's day
ListedToday ==
    [i \in 1..MaxListed |->
        [date |-> LocalTime(currentYear, currentMonth, currentDay, MaxListed - i),
         type |-> "expense", amount |-> 1]]

\* Either pair of components with A signed in and A's documents delivered.
InitConfirm ==
    /\ variant \in Variants
    /\ currentYear = 2024
    /\ currentMonth = 1
    /\ currentDay = 29
    /\ lastCall = NoCall
    /\ updateQueue = <<>>
    /\ InitUi
    /\ StoreListing(ListedToday)

NextConfirm ==
    \/ \E id \in DocIds : handleDelete(id)
    \/ onCancel
    \/ onConfirm
    \/ \E o \in 1..MaxOps, ok \in BOOLEAN : confirmActionResumes(o, ok)
    \/ closeMessage
    \/ SnapshotCallback(1)

SpecConfirm == InitConfirm /\ [][NextConfirm]_vars

\* ------------------------------------------------ authentication

\* the sign-in calls in flight
RECURSIVE SignInsInFlight(_)
SignInsInFlight(q) ==
    IF q = <<>> THEN 0
    ELSE (IF Head(q) = "signIn" THEN 1 ELSE 0) + SignInsInFlight(Tail(q))

\* AuthContainer renders the sign-in prompt unless the auth loading flag is
\* set; it does not read currentUser
SignInPromptShown == ~authLoading

\* AppContainer renders (its content or its loading indicator) for a user
AppContainerShown == currentUser # NoUser

\* the "Sign in with Google" button: setLoading(true), then await
\* signInWithPopup
signInWithGoogle ==
    /\ SignInPromptShown
    /\ Len(authCalls) < MaxOps
    /\ Len(subs) + SignInsInFlight(authCalls) < MaxSubs
    /\ authLoading' = TRUE
    /\ authCalls' = Append(authCalls, "signIn")
    /\ UNCHANGED <<storeVars, cursorVars, viewVars, formVars, confirmModal,
                   messageModal, showCategoryManagement>>

\* UserInfo's sign-out button: setLoading(true), then await signOut
signOutUser ==
    /\ ContentRendered
    /\ Len(authCalls) < MaxOps
    /\ authLoading' = TRUE
    /\ authCalls' = Append(authCalls, "signOut")
    /\ UNCHANGED <<storeVars, cursorVars, viewVars, formVars, confirmModal,
                   messageModal, showCategoryManagement>>

\* the sessions call i can end in when it succeeds: the initial check finds
\* the persisted session, a sign-in gives a user, a sign-out none
SessionsAfter(kind) ==
    IF kind = "init" THEN Users \cup {NoUser}
    ELSE IF kind = "signIn" THEN Users
    ELSE {NoUser}

\* call i succeeds with session u.  The observer registered by the effect is
\* called with u: always by the initial check, otherwise when the session
\* has changed; it sets currentUser, which re-runs the subscription effect
\* when the user differs, and clears the loading flag.  The resumed
\* signInWithGoogle / signOutUser does nothing more.
AuthCallResolves(i, u, setupOk) ==
    /\ i \in 1..Len(authCalls)
    /\ u \in SessionsAfter(authCalls[i])
    /\ authCalls' = Without(authCalls, i)
    /\ IF u # currentUser
       THEN /\ AuthStateChangedStore(u, setupOk)
            /\ authLoading' = FALSE
       ELSE /\ microtasks = <<>>
            /\ setupOk
            /\ authLoading' = IF authCalls[i] = "init" THEN FALSE ELSE authLoading
            /\ UNCHANGED storeVars
    /\ UNCHANGED <<cursorVars, viewVars, formVars, confirmModal, messageModal,
                   showCategoryManagement>>

\* call i fails or is cancelled: the catch logs the error; the observer is
\* not called
AuthCallRejects(i) ==
    /\ i \in 1..Len(authCalls)
    /\ authCalls[i] # "init"
    /\ microtasks = <<>>
    /\ authCalls' = Without(authCalls, i)
    /\ UNCHANGED <<storeVars, cursorVars, viewVars, formVars, authLoading,
                   confirmModal, messageModal, showCategoryManagement>>

\* The app as constructed: no user, the auth loading flag set, the initial
\* check of the session in flight.
InitAuth ==
    /\ variant \in Variants
    /\ InitStore
    /\ currentYear = 2025
    /\ currentMonth = 0
    /\ currentDay = 31
    /\ lastCall = NoCall
    /\ updateQueue = <<>>
    /\ tzOffset = 0
    /\ filteredTransactions = <<>>
    /\ overview = NoOverview
    /\ form = ClosedForm
    /\ submitted = NoSubmit
    /\ authLoading = TRUE
    /\ authCalls = <<"init">>
    /\ confirmModal = NoConfirm
    /\ messageModal = NoMessage
    /\ showCategoryManagement = FALSE

\* a call of the identity provider settles
AuthCallSettles ==
    \/ \E i \in 1..MaxOps, u \in Users \cup {NoUser}, ok \in BOOLEAN :
          AuthCallResolves(i, u, ok)
    \/ \E i \in 1..MaxOps : AuthCallRejects(i)

NextAuth ==
    \/ signInWithGoogle
    \/ signOutUser
    \/ AuthCallSettles
    \/ RunMicrotask
    \/ \E l \in 1..MaxSubs : SnapshotCallback(l)

SpecAuth == InitAuth /\ [][NextAuth]_vars

\* every call of the identity provider settles, and a queued promise reaction
\* runs
SpecAuthFair ==
    /\ SpecAuth
    /\ WF_vars(AuthCallSettles)
    /\ WF_vars(RunMicrotask)

\* ------------------------------------------------ properties

ListedDocs == {transactions[i] : i \in 1..Len(transactions)}

\* C1: once the signed-in identity's own listener has applied its first
\* snapshot, the exposed list holds no document of another identity, whatever
\* callback is delivered afterwards.
C1_NoStaleList ==
    (currentUser \in Users /\ resolved) => \A d \in ListedDocs : d.uid = currentUser

\* C2: no identity ever has two registered listeners, and once the reaction
\* queued by an identity change has run, every registered listener belongs to
\* the signed-in identity (none after sign-out).
C2_OneListener ==
    /\ \A i, j \in 1..Len(subs) : i # j => subs[i].uid # subs[j].uid
    /\ microtasks = <<>> => \A i \in 1..Len(subs) : subs[i].uid = currentUser

\* a step that is a call of addTransaction or deleteTransaction
IsCall ==
    \/ \E d \in Dates, argOk \in BOOLEAN : addTransaction(d, argOk)
    \/ \E id \in DocIds : deleteTransaction(id)

\* a step in which a remote call of addTransaction / deleteTransaction settles
IsSettle == \E o \in 1..MaxOps, ok \in BOOLEAN : Settle(o, ok)

\* a step that applies a snapshot callback
IsSnapshot == \E l \in 1..MaxSubs : SnapshotCallback(l)

\* C3: a call of addTransaction or deleteTransaction and the settling of its
\* remote call leave the exposed list as it is, and every step that changes
\* the list is a snapshot callback.
C3_ListOnlyFromFeed ==
    [][/\ (IsCall \/ IsSettle) => transactions' = transactions
       /\ transactions' # transactions => IsSnapshot]_vars

\* C3 witness: a delete succeeded remotely and the list still shows the
\* deleted document.
C3_Witness ==
    /\ lastResult.kind = "delete"
    /\ lastResult.outcome = "ok"
    /\ \E d \in ListedDocs : d \notin remote[d.uid]

\* C4: a call made with a signed-in identity completes with a boolean, true
\* exactly when the remote call was made and succeeded.
C4_BooleanResult ==
    lastResult.uid \in Users =>
        /\ lastResult.ret \in {"true", "false"}
        /\ lastResult.ret = "true" <=> (lastResult.called /\ lastResult.outcome = "ok")

\* C4 witness: a remote call failed and its call returned false.
C4_Witness ==
    /\ lastResult.uid \in Users
    /\ lastResult.called
    /\ lastResult.outcome = "fail"
    /\ lastResult.ret = "false"

\* C5: a call made while no identity is resolved issues no remote call, leaves
\* the list and the loading flag unchanged and returns false.
C5_NoUserReturnsFalse ==
    [][(currentUser = NoUser /\ IsCall) =>
          /\ ops' = ops
          /\ remote' = remote
          /\ transactions' = transactions
          /\ loading' = loading
          /\ ~lastResult'.called
          /\ lastResult'.ret = "false"]_vars

\* C6: the exposed list is always ordered by date, most recent first, and a
\* snapshot callback sets it to exactly the documents of its collection.
IsSortedDesc(s) ==
    \A i, j \in 1..Len(s) : i < j => NotAfter(s[j].date, s[i].date)

C6_SortedReplacement ==
    /\ []IsSortedDesc(transactions)
    /\ [][\A l \in 1..MaxSubs : SnapshotCallback(l) =>
             /\ {transactions'[i] : i \in 1..Len(transactions')} = remote[subs[l].uid]
             /\ Len(transactions') = Cardinality(remote[subs[l].uid])]_vars

\* C6 witness: the list holds two documents that the sort has put in the
\* opposite of their snapshot order.
C6_Witness ==
    /\ Len(transactions) >= 2
    /\ transactions[1].id > transactions[2].id
    /\ ~NotAfter(transactions[1].date, transactions[2].date)

\* C7: a listener error, and a failure to set the listener up, leave the
\* loading flag false and the list as it was.
C7_ErrorClearsLoading ==
    [][((\E l \in 1..MaxSubs : SnapshotError(l))
          \/ (\E u \in Users : AuthStateChanged(u, FALSE))) =>
          /\ loading' = FALSE
          /\ transactions' = transactions]_vars

\* C8: a call that was in flight while another call failed still returns the
\* outcome of its own remote call, and the settling of a call changes neither
\* the list nor the other calls in flight.
C8_IndependentOutcomes ==
    /\ [](lastResult.raced =>
             /\ lastResult.ret \in {"true", "false"}
             /\ lastResult.ret = "true" <=> lastResult.outcome = "ok")
    /\ [][\A o \in 1..MaxOps, ok \in BOOLEAN : Settle(o, ok) =>
             /\ transactions' = transactions
             /\ Len(ops') = Len(ops) - 1
             /\ \A i \in 1..Len(ops') :
                   \E j \in 1..Len(ops) :
                      /\ j # o
                      /\ ops'[i].kind = ops[j].kind
                      /\ ops'[i].uid = ops[j].uid
                      /\ ops'[i].arg = ops[j].arg]_vars

\* C8 witness: a call succeeded and returned true after another call had
\* failed while it was in flight.
C8_Witness ==
    /\ lastResult.raced
    /\ lastResult.outcome = "ok"
    /\ lastResult.ret = "true"

\* C9: changeMonth(delta) moves the cursor by exactly delta months.
C9_MovesByDelta ==
    lastCall.op = "changeMonth" =>
        currentYear * 12 + currentMonth
            = lastCall.year * 12 + lastCall.month + lastCall.delta

\* C10: the cursor's month is always in 0..11, and after a changeMonth call
\* the cursor's day is 1.
C10_MonthInRange ==
    /\ currentMonth \in 0..11
    /\ lastCall.op = "changeMonth" => currentDay = 1

\* C10 witness: a step of more than one month from the last day of a month
\* has crossed a year boundary.
C10_Witness ==
    /\ lastCall.op = "changeMonth"
    /\ lastCall.day = 31
    /\ lastCall.delta \notin {-1, 0, 1}
    /\ currentYear # lastCall.year

\* the cursor as a record
Cursor == [year |-> currentYear, month |-> currentMonth, day |-> currentDay]

\* the cursor the last navigation call was applied to
CursorBefore == [year |-> lastCall.year, month |-> lastCall.month, day |-> lastCall.day]

\* C11: a changeDay(b) made on the cursor that a changeDay(a) has produced
\* leaves the cursor that one changeDay(a + b) gives from the cursor the
\* first call started at.
C11_ChangeDayComposes ==
    [][\A b \in Deltas :
          (lastCall.op = "changeDay" /\ lastCall'.delta = b /\ changeDay(b)) =>
              Cursor' = changeDayResult(lastCall.year, lastCall.month,
                                        lastCall.day, lastCall.delta + b)]_vars

\* C11 witness: two changeDay calls in a row, the second of which has left
\* the month the first one arrived in.
C11_Witness ==
    /\ lastCall.op = "changeDay"
    /\ lastCall.prevOp = "changeDay"
    /\ lastCall.delta # 0
    /\ lastCall.month # currentMonth

\* the calendar date after / before a calendar date, by the lengths of the
\* Gregorian months
NextDate(c) ==
    IF c.day < DaysInMonth(c.year, c.month) THEN [c EXCEPT !.day = @ + 1]
    ELSE IF c.month < 11 THEN [year |-> c.year, month |-> c.month + 1, day |-> 1]
    ELSE [year |-> c.year + 1, month |-> 0, day |-> 1]

PrevDate(c) ==
    IF c.day > 1 THEN [c EXCEPT !.day = @ - 1]
    ELSE IF c.month > 0
         THEN [year |-> c.year, month |-> c.month - 1,
               day |-> DaysInMonth(c.year, c.month - 1)]
    ELSE [year |-> c.year - 1, month |-> 11, day |-> 31]

RECURSIVE StepDays(_, _)
StepDays(c, n) ==
    IF n = 0 THEN c
    ELSE IF n > 0 THEN StepDays(NextDate(c), n - 1)
    ELSE StepDays(PrevDate(c), n + 1)

\* C12: after changeDay(delta) the cursor is the calendar date delta days
\* after (before) the date it was applied to: 31 December + 1 is 1 January of
\* the next year, 1 March - 1 is 29 February in a leap year and 28 February
\* otherwise.
C12_CalendarArithmetic ==
    lastCall.op = "changeDay" =>
        /\ Cursor = StepDays(CursorBefore, lastCall.delta)
        /\ (lastCall.month = 11 /\ lastCall.day = 31 /\ lastCall.delta = 1) =>
               Cursor = [year |-> lastCall.year + 1, month |-> 0, day |-> 1]
        /\ (lastCall.month = 2 /\ lastCall.day = 1 /\ lastCall.delta = -1) =>
               Cursor = [year |-> lastCall.year, month |-> 1,
                         day |-> IF IsLeapYear(lastCall.year) THEN 29 ELSE 28]

\* C12 witness: one day back from 1 March of a leap year.
C12_Witness ==
    /\ lastCall.op = "changeDay"
    /\ lastCall.delta = -1
    /\ lastCall.month = 2
    /\ lastCall.day = 1
    /\ IsLeapYear(lastCall.year)
    /\ currentDay = 29

\* C13: the cursor is always a real calendar date.
C13_RealDate ==
    /\ currentMonth \in 0..11
    /\ currentDay \in 1..DaysInMonth(currentYear, currentMonth)

\* C13 witness: changeMonth, called after a changeDay on the 31st of a month,
\* has arrived in a month that has no 31st.
C13_Witness ==
    /\ lastCall.op = "changeMonth"
    /\ lastCall.prevOp = "changeDay"
    /\ lastCall.day = 31
    /\ DaysInMonth(currentYear, currentMonth) < 31

\* C14: a changeDay or changeMonth call leaves everything but the cursor as
\* it is: the list, the loading flag, the calls in flight, the document store
\* and the listeners.
C14_NavigationFrame ==
    [][\A delta \in Deltas :
          (lastCall'.delta = delta /\ (changeDay(delta) \/ changeMonth(delta))) =>
              UNCHANGED storeVars]_vars

\* C14 witness: both kinds of navigation were called while a listener was
\* registered, a document listed and an addTransaction call in flight.
C14_Witness ==
    /\ StoreInUse
    /\ lastCall.op = "changeDay"
    /\ lastCall.prevOp = "changeMonth"
    /\ Cursor # CursorBefore

\* the local calendar date a transaction's date falls on
LocalDate(t) == DateFields(Instant(t.date.day, t.date.ms + tzOffset).day)

\* the transaction's date lies in the window the cursor names: the cursor's
\* day (components/) or the cursor's month (context/), from the first
\* millisecond of its first day to the last millisecond of its last day
InCalendarWindow(t) ==
    LET d == LocalDate(t)
    IN  /\ d.year = currentYear
        /\ d.month = currentMonth
        /\ variant = "components" => d.day = currentDay

\* s keeps exactly the listed transactions of the calendar window
KeepsWindow(s) ==
    \A i \in 1..Len(transactions) :
        (\E j \in 1..Len(s) : s[j] = transactions[i]) <=>
            InCalendarWindow(transactions[i])

\* C15: a render keeps exactly the transactions dated within the window, both
\* ends included to the millisecond: one dated 00:00:00.000 of the first day
\* or 23:59:59.999 of the last day is kept, one dated 00:00:00.000 of the day
\* after is not.
C15_WindowInclusive ==
    [][/\ RenderOverviewSection => KeepsWindow(overview'.filtered)
       /\ RenderTransactionsSection => KeepsWindow(filteredTransactions')]_vars

\* the listed transactions of the calendar window that have the given type
WindowOfType(type) ==
    {transactions[i] : i \in {k \in 1..Len(transactions) :
        transactions[k].type = type /\ InCalendarWindow(transactions[k])}}

RECURSIVE SumAmounts(_)
SumAmounts(S) ==
    IF S = {} THEN 0
    ELSE LET t == CHOOSE x \in S : TRUE IN t.amount + SumAmounts(S \ {t})

\* C16: a render's totalIncome is the sum of the amounts of the income
\* transactions of the window and its totalExpenses that of the expense
\* transactions of the window; with no transaction in the window the totals
\* and the balance are 0.
C16_Totals ==
    [][RenderOverviewSection =>
          /\ overview'.totalIncome = SumAmounts(WindowOfType("income"))
          /\ overview'.totalExpenses = SumAmounts(WindowOfType("expense"))
          /\ (WindowOfType("income") \cup WindowOfType("expense") = {}) =>
                 /\ overview'.totalIncome = 0
                 /\ overview'.totalExpenses = 0
                 /\ overview'.balance = 0]_vars

\* C17: the rendered balance is totalIncome - totalExpenses, the balance is
\* shown blue exactly when totalIncome >= totalExpenses, and the magnitude
\* shown is the absolute value of the balance.
C17_BalanceSign ==
    [][RenderOverviewSection =>
          /\ overview'.balance = overview'.totalIncome - overview'.totalExpenses
          /\ overview'.colour = "blue" <=>
                 overview'.totalIncome >= overview'.totalExpenses
          /\ overview'.magnitude >= 0
          /\ overview'.magnitude \in {overview'.balance, 0 - overview'.balance}]_vars

\* C17 witness: income and expenses of the window cancel, and the overview
\* shows a blue 0.
C17_Witness ==
    /\ overview.totalIncome > 0
    /\ overview.totalIncome = overview.totalExpenses
    /\ overview.colour = "blue"
    /\ overview.magnitude = 0

\* a form that must not be submitted: no amount, an amount that is not a
\* number above 0, no category or no date
MustBeRejected(f) ==
    \/ f.amount \notin {a \in AmountInputs :
                          ~ParseFloat(a).nan /\ ParseFloat(a).value > 0}
    \/ f.category = ""
    \/ f.date = <<>>

\* C18: every transaction handleSubmit passes to addTransaction has an amount
\* above 0, a category and a date; on any other form handleSubmit calls
\* nothing of the provider, shows the error message and leaves the modal
\* open.
C18_ValidatedSubmit ==
    /\ [](submitted.called =>
            /\ submitted.transaction.amount > 0
            /\ submitted.transaction.category # ""
            /\ submitted.transaction.date # <<>>)
    /\ [][(handleSubmit /\ MustBeRejected(form)) =>
             /\ ~submitted'.called
             /\ submitted'.message = "Please fill all fields with valid values."
             /\ form'.isOpen
             /\ UNCHANGED storeVars]_vars

\* C18 witness: a form complete but for an amount of 0 was rejected, after an
\* earlier one had been passed on.
C18_Witness ==
    /\ form.isOpen
    /\ form.amount = "0"
    /\ form.category # ""
    /\ form.date # <<>>
    /\ submitted.message = "Please fill all fields with valid values."
    /\ calls > 0

DateStringOf(t) == CHOOSE d \in RoundTripDates : TimestampOf(d) = t.date

\* C20: at every UTC offset, a render of the day window keeps a delivered
\* transaction exactly when the cursor is at the date of the date string the
\* transaction was added with.
C20_DateRoundTrip ==
    [][RenderTransactionsSection =>
          \A i \in 1..Len(transactions) :
              (\E j \in 1..Len(filteredTransactions') :
                    filteredTransactions'[j] = transactions[i]) <=>
                  Cursor = CursorAt(DateStringOf(transactions[i]))]_vars

\* AppContainer renders the transaction views: a user is signed in, the
\* transaction loading flag is false and no promise reaction is pending
ViewsRendered == currentUser \in Users /\ ~loading /\ microtasks = <<>>

\* C21: whenever the app container renders the transaction views for the
\* signed-in identity, every transaction of the exposed list belongs to that
\* identity.
C21_ListOfSignedIn ==
    ViewsRendered => \A d \in ListedDocs : d.uid = currentUser

\* the initial subscription load is in flight: the listener of the latest
\* effect run is registered and has not applied a snapshot yet
InitialLoadInFlight ==
    /\ ~resolved
    /\ \E i \in 1..Len(subs) : subs[i].role = "current"

\* C22: the loading flag is true in every state in which the initial load, an
\* addTransaction or a deleteTransaction is still in flight.
C22_LoadingWhileInFlight ==
    (ops # <<>> \/ InitialLoadInFlight) => loading

\* the queued calls applied one after the other, each to the cursor the call
\* before it has produced
RECURSIVE ProcessQueueInTurn(_, _)
ProcessQueueInTurn(q, c) ==
    IF q = <<>> THEN c
    ELSE ProcessQueueInTurn(Tail(q),
            IF Head(q).op = "changeDay"
            THEN changeDayResult(c.year, c.month, c.day, Head(q).delta)
            ELSE changeMonthResult(c.year, c.month, Head(q).delta))

\* C23: when the provider renders after a handler has made navigation calls,
\* the cursor is where the calls applied one after the other would leave it:
\* changeMonth(1) twice from December gives February of the next year, and
\* changeDay(1) twice advances the date by two days.
C23_BatchedCallsCompose ==
    [][RenderProvider => Cursor' = ProcessQueueInTurn(updateQueue, Cursor)]_vars

\* a step in which the confirmed action resumes after deleteTransaction
IsResume == \E o \in 1..MaxOps, ok \in BOOLEAN : confirmActionResumes(o, ok)

\* C24: deleteTransaction is called only by the confirm button of a
\* ConfirmModal that a showConfirm for that id has opened; cancelling closes
\* the modal and calls nothing; when the confirmed action resumes it shows one
\* message, the success message if deleteTransaction returned true and the
\* error message otherwise, and no message is shown by any other step.
C24_DeleteAfterConfirm ==
    [][/\ calls' # calls =>
             /\ confirmModal.isOpen
             /\ confirmModal.action \in DocIds
             /\ ops' = Append(ops, [kind |-> "delete", uid |-> currentUser,
                                    arg |-> confirmModal.action, raced |-> FALSE])
       /\ (confirmModal'.isOpen /\ confirmModal' # confirmModal) =>
             \E id \in DocIds : handleDelete(id)
       /\ onCancel => (~confirmModal'.isOpen /\ UNCHANGED storeVars)
       /\ IsResume =>
             /\ messageModal'.isOpen
             /\ messageModal'.isError = (lastResult'.ret # "true")
             /\ messageModal'.isError = (lastResult'.outcome # "ok")
       /\ (messageModal'.isOpen /\ messageModal' # messageModal) => IsResume]_vars

\* C24 witness: the second confirmed delete has removed a document and shown
\* the success message
C24_Witness ==
    /\ messageModal.isOpen
    /\ ~messageModal.isError
    /\ lastResult.kind = "delete"
    /\ lastResult.ret = "true"
    /\ calls = MaxOps
    /\ Cardinality(remote["A"]) < MaxListed

\* C25: pressing the confirm button closes the ConfirmModal.
C25_ConfirmCloses ==
    [][onConfirm => ~confirmModal'.isOpen]_vars

\* C26: no label of the provider's default income or expense categories has
\* a delete button in the category management list.
C26_DefaultsNotDeletable ==
    DeleteButtons \cap (incomeCategories \cup expenseCategories) = {}

\* a signInWithGoogle or signOutUser call is in flight
AuthCallInFlight ==
    \E i \in 1..Len(authCalls) : authCalls[i] \in {"signIn", "signOut"}

\* C27: once signInWithGoogle or signOutUser has been called, the auth loading
\* flag is eventually false again, whether the call succeeds or fails, given
\* that every call settles.
C27_AuthLoadingClears == AuthCallInFlight ~> ~authLoading

\* C28: tearing down the subscription effect never raises an error or an
\* unhandled rejection, also after the set-up of the listener failed.
C28_TeardownNeverThrows == ~unhandled

\* C29: the sign-in prompt is shown only while no user is signed in, and the
\* app container only while a user is signed in, so never both.
C29_SignInXorApp ==
    /\ SignInPromptShown => currentUser = NoUser
    /\ AppContainerShown => currentUser # NoUser
    /\ ~(SignInPromptShown /\ AppContainerShown)

====
